---- MODULE Spec2Model ----
(***************************************************************************)
(* Colour metric tensors (src/colour/tensor.py).                           *)
(*                                                                         *)
(* The builders euclidean, dE_ab .. dE_DIN99d, dE_00 and poincare_disk     *)
(* take a data.Data batch of colour points and return a data.TensorData:   *)
(* (colour space, batch, N x 3 x 3 array).  Real numbers are exact         *)
(* rationals <<n, d>>; numpy's division by zero gives the values Inf and   *)
(* NaN, and a double too small to change the sum it enters is NegTiny.     *)
(* Arrays live in a heap so that views, copies and in-place writes are     *)
(* told apart.                                                             *)
(***************************************************************************)
EXTENDS Integers, Sequences, FiniteSets, TLC

VARIABLES
  heap,      \* the arrays: identity -> contents
  dat,       \* the data.Data batch the builders are called on
  calls,     \* the builder calls made so far, oldest first
  results,   \* the TensorData each of them returned
  last_h_deg, \* dE_00's local h_deg at the return of the latest dE_00 call
  failure    \* the exception a call raised, "none" while none did

vars == <<heap, dat, calls, results, last_h_deg, failure>>

\* The longest batch of colour points.
MaxN == 2

\* The number of builder calls made on the batch.
MaxCalls == 2

----------------------------------------------------------------------------
(* Exact rational arithmetic: <<n, d>> with d > 0 and gcd(n, d) = 1.       *)

\* An array given element by element, as the tuple of its elements.
Array(f) == f \o <<>>

Abs(x) == IF x < 0 THEN -x ELSE x

RECURSIVE GCD(_, _)
GCD(a, b) == IF b = 0 THEN a ELSE GCD(b, a % b)

Norm(n, d) ==
  LET g == GCD(Abs(n), Abs(d))
      s == IF d < 0 THEN -1 ELSE 1
  IN  <<s * (n \div g), s * (d \div g)>>

Rat(n) == <<n, 1>>
Dec(n, scale) == Norm(n, scale)

Zero == Rat(0)
One == Rat(1)
Inf == <<1, 0>>
NegInf == <<-1, 0>>
NaN == <<0, 0>>

IsFinite(x) == x[2] # 0
IsInf(x) == x = Inf \/ x = NegInf

RNeg(x) == <<-x[1], x[2]>>

RAdd(x, y) ==
  LET g == GCD(x[2], y[2])
  IN  Norm(x[1] * (y[2] \div g) + y[1] * (x[2] \div g), (x[2] \div g) * y[2])

RSub(x, y) == RAdd(x, RNeg(y))

RMul(x, y) ==
  LET g1 == GCD(Abs(x[1]), y[2])
      g2 == GCD(Abs(y[1]), x[2])
  IN  <<(x[1] \div g1) * (y[1] \div g2), (x[2] \div g2) * (y[2] \div g1)>>

RInv(x) == IF x[1] < 0 THEN <<-x[2], -x[1]>> ELSE <<x[2], x[1]>>

RLt(x, y) == x[1] * y[2] < y[1] * x[2]
RLe(x, y) == x[1] * y[2] <= y[1] * x[2]

\* x ** k for an integer k >= 0.
RECURSIVE RPowNat(_, _)
RPowNat(x, k) == IF k = 0 THEN One ELSE RMul(x, RPowNat(x, k - 1))

\* x / y of two numpy floats: a zero divisor gives inf or nan (and a
\* RuntimeWarning), never an exception.
ZeroDivisionError == <<0, -1>>

py_divide(x, y) ==
  IF y = Zero THEN ZeroDivisionError ELSE RMul(x, RInv(y))

np_divide(x, y) ==
  IF y = Zero
    THEN (IF x = Zero THEN NaN ELSE IF x[1] < 0 THEN NegInf ELSE Inf)
    ELSE RMul(x, RInv(y))

\* x ** k of a numpy array element, k an integer of either sign.
np_power(x, k) ==
  IF k >= 0 THEN RPowNat(x, k) ELSE np_divide(One, RPowNat(x, -k))

\* A negative double of magnitude below 2**-45, half the distance between
\* 360.0 and the double before it: -1e-17, and its products with 2 and
\* with 180/pi.
NegTiny == <<-1, -1>>

\* x * y, x + y and x < y of doubles: exact, except that the product of
\* NegTiny with one of the positive factors of the source is as small, and
\* that the double nearest to NegTiny + y, for y not 0, is y.
np_multiply(x, y) ==
  IF x = NegTiny \/ y = NegTiny THEN NegTiny ELSE RMul(x, y)

np_add(x, y) ==
  IF x = NegTiny THEN (IF y = Zero THEN x ELSE y)
  ELSE IF y = NegTiny THEN (IF x = Zero THEN y ELSE x)
  ELSE RAdd(x, y)

np_less(x, y) ==
  IF x = NegTiny THEN y # NegTiny /\ RLe(Zero, y)
  ELSE IF y = NegTiny THEN RLt(x, Zero)
  ELSE RLt(x, y)

----------------------------------------------------------------------------
(* numpy's elementary functions.  Their values are irrational; they are    *)
(* tabulated to the nearest half, which keeps every tensor entry an exact  *)
(* rational.  Angles in radians are written in units of pi, so that        *)
(* np.rad2deg and np.deg2rad are the multiplications by 180/pi and pi/180  *)
(* they are in numpy.                                                      *)

Half == <<1, 2>>

\* cos of t degrees for 0 <= t <= 90: cos t >= 0.75 up to 41.4 degrees and
\* cos t >= 0.25 up to 75.5 degrees.
CosQuadrant(t) ==
  IF RLe(t, Dec(414, 10)) THEN One
  ELSE IF RLe(t, Dec(755, 10)) THEN Half
  ELSE Zero

\* t degrees folded into [0, 360).
Mod360(t) == Norm(t[1] % (360 * t[2]), t[2])

CosDeg(t) ==
  LET a == Mod360(t)
      b == IF RLt(Rat(180), a) THEN RSub(Rat(360), a) ELSE a
  IN  IF RLt(Rat(90), b) THEN RNeg(CosQuadrant(RSub(Rat(180), b)))
      ELSE CosQuadrant(b)

np_rad2deg(x) == np_multiply(x, Rat(180))
np_deg2rad(x) == RMul(x, <<1, 180>>)
np_cos(x) == IF x = NegTiny THEN One ELSE CosDeg(RMul(x, Rat(180)))
np_sin(x) == CosDeg(RSub(Rat(90), RMul(x, Rat(180))))

\* exp(y) for y <= 0: exp(y) >= 0.75 down to y = -0.288 and
\* exp(y) >= 0.25 down to y = -1.386.
np_exp(y) ==
  IF RLe(Dec(-288, 1000), y) THEN One
  ELSE IF RLe(Dec(-1386, 1000), y) THEN Half
  ELSE Zero

\* The m >= from with m/2 nearest to sqrt(a/b): 2*sqrt(a/b) < m + 1/2.
RECURSIVE SqrtHalves(_, _, _)
SqrtHalves(a, b, from) ==
  IF 16 * a < (2 * from + 1) * (2 * from + 1) * b
    THEN from
    ELSE SqrtHalves(a, b, from + 1)

np_sqrt(v) == Norm(SqrtHalves(v[1], v[2], 0), 2)

----------------------------------------------------------------------------
(* The colour spaces of module space, by name.                             *)

cielab == "cielab"
cieluv == "cieluv"
lgj_e == "lgj_e"
din99 == "din99"
din99b == "din99b"
din99c == "din99c"
din99d == "din99d"
ciede00lch == "ciede00lch"

\* space.TransformPoincareDisk(space.cielab, R): the disk spaces, and the
\* radius of curvature sp.R each carries.
DiskSpaces == {"poincare_R1", "poincare_R100"}

R(sp) == IF sp = "poincare_R1" THEN Rat(1) ELSE Rat(100)

Spaces ==
  {cielab, cieluv, lgj_e, din99, din99b, din99c, din99d, ciede00lch}
    \cup DiskSpaces

\* The spaces a batch is created in.
HomeSpaces == {cielab, ciede00lch}

----------------------------------------------------------------------------
(* The colours the batches are made of, with the coordinates the space     *)
(* module gives each: XYZ, Lab, CIEDE2000 (L, C, h) with h in radians      *)
(* (units of pi), and Poincare disk (d0, d1, d2).                          *)

Palette ==
  << [xyz  |-> <<Rat(1), Rat(1), Rat(1)>>,
      lab  |-> <<Rat(50), Zero, Zero>>,
      lch  |-> <<Rat(50), Zero, Zero>>,
      disk |-> <<Zero, Zero, Zero>>],
     [xyz  |-> <<Rat(2), Rat(2), Rat(2)>>,
      lab  |-> <<Rat(50), Zero, Zero>>,
      lch  |-> <<Rat(50), Zero, One>>,
      disk |-> <<One, Zero, Zero>>],
     [xyz  |-> <<Rat(3), Rat(3), Rat(3)>>,
      lab  |-> <<Rat(46), Zero, Rat(-20)>>,
      lch  |-> <<Rat(46), Rat(20), <<-1, 2>>>>,
      disk |-> <<Zero, Half, Zero>>],
     [xyz  |-> <<Rat(4), Rat(4), Rat(4)>>,
      lab  |-> <<Rat(62), Zero, Rat(50)>>,
      lch  |-> <<Rat(62), Rat(50), Half>>,
      disk |-> <<Zero, <<3, 5>>, <<4, 5>>>>],
     [xyz  |-> <<Rat(5), Rat(5), Rat(5)>>,
      lab  |-> <<Rat(54), Rat(25), NegTiny>>,
      lch  |-> <<Rat(54), Rat(25), NegTiny>>,
      disk |-> <<One, Rat(2), Zero>>] >>

Colours == 1..Len(Palette)

\* The coordinates of a palette colour in a space.
Coord(sp, c) ==
  IF sp = ciede00lch THEN Palette[c].lch
  ELSE IF sp \in DiskSpaces THEN Palette[c].disk
  ELSE Palette[c].lab

\* sp.to_XYZ and sp.from_XYZ on an N x 3 array.
to_XYZ(sp, ndata) ==
  Array([i \in 1..Len(ndata) |->
           Palette[CHOOSE c \in Colours : Coord(sp, c) = ndata[i]].xyz])

from_XYZ(sp, xyz) ==
  Array([i \in 1..Len(xyz) |->
           Coord(sp, CHOOSE c \in Colours : Palette[c].xyz = xyz[i])])

----------------------------------------------------------------------------
(* Arrays.  The heap maps an array's identity to its contents; a reference *)
(* [id, col] is the whole array (col = 0) or the view [:, col - 1] of an   *)
(* N x 3 array, which shares the array's memory.                           *)

Alloc(hp) == CHOOSE id \in 1..(Cardinality(DOMAIN hp) + 1) : id \notin DOMAIN hp

New(hp, contents) == (Alloc(hp) :> contents) @@ hp

Whole(id) == [id |-> id, col |-> 0]
View(id, col) == [id |-> id, col |-> col]

Load(hp, ref) ==
  IF ref.col = 0 THEN hp[ref.id]
  ELSE Array([i \in 1..Len(hp[ref.id]) |-> hp[ref.id][i][ref.col]])

Store(hp, ref, values) ==
  IF ref.col = 0 THEN [hp EXCEPT ![ref.id] = values]
  ELSE [hp EXCEPT ![ref.id] =
          Array([i \in 1..Len(@) |-> [@[i] EXCEPT ![ref.col] = values[i]]])]

\* A local name goes out of scope: an array nothing else refers to is
\* freed, a view leaves the array it looks into alone.
Release(hp, ref) ==
  IF ref.col = 0 THEN [id \in DOMAIN hp \ {ref.id} |-> hp[id]] ELSE hp

----------------------------------------------------------------------------
(* data.Data: a batch created in space sp keeps its coordinates in         *)
(* data[sp], its XYZ coordinates in linear_XYZ, and caches the             *)
(* coordinates of every space it is asked for.                             *)

Data(hp, sp, ndata) ==
  LET h1 == New(hp, ndata)
      h2 == New(h1, to_XYZ(sp, ndata))
  IN  [heap |-> h2,
       dat  |-> [self |-> "Data",
                 sp |-> sp,
                 data |-> (sp :> Alloc(hp)),
                 linear_XYZ |-> Alloc(h1)]]

\* dat.get_linear(sp): the cached N x 3 array of the batch in sp, computed
\* from linear_XYZ and cached at the first request.
get_linear(hp, d, sp) ==
  IF sp \in DOMAIN d.data
    THEN [heap |-> hp, dat |-> d, id |-> d.data[sp]]
    ELSE [heap |-> New(hp, from_XYZ(sp, hp[d.linear_XYZ])),
          dat  |-> [d EXCEPT !.data = (sp :> Alloc(hp)) @@ @],
          id   |-> Alloc(hp)]

\* sp.empty_matrix(ndata): np.zeros((np.shape(ndata)[0], 3, 3)).
zeros33 == <<<<Zero, Zero, Zero>>, <<Zero, Zero, Zero>>, <<Zero, Zero, Zero>>>>

empty_matrix(ndata) == Array([i \in 1..Len(ndata) |-> zeros33])

\* data.TensorData(sp, dat, g).
TensorData(sp, d, g) == [sp |-> sp, dat |-> d.self, g |-> g]

----------------------------------------------------------------------------
(* The builders.  Each takes the heap and the batch and gives the heap and *)
(* the batch after the call and the TensorData returned (its g the         *)
(* identity of the N x 3 x 3 array).                                       *)

eye3 == <<<<One, Zero, Zero>>, <<Zero, One, Zero>>, <<Zero, Zero, One>>>>

\* for i in range(np.shape(g)[0]): g[i] = np.eye(3)
RECURSIVE euclidean_loop_short(_, _)
euclidean_loop_short(g, i) ==
  IF i >= Len(g) THEN g
  ELSE euclidean_loop_short([g EXCEPT ![i] = eye3], i + 1)

RECURSIVE euclidean_loop(_, _)
euclidean_loop(g, i) ==
  IF i > Len(g) THEN g
  ELSE euclidean_loop([g EXCEPT ![i] = eye3], i + 1)

euclidean(hp, d, sp) ==
  LET g == euclidean_loop(empty_matrix(hp[d.linear_XYZ]), 1)
  IN  [heap |-> New(hp, g), dat |-> d,
       result |-> TensorData(sp, d, Alloc(hp))]

dE_ab(hp, d) == euclidean(hp, d, cielab)
dE_uv(hp, d) == euclidean(hp, d, cieluv)
dE_E(hp, d) == euclidean(hp, d, lgj_e)
dE_DIN99(hp, d) == euclidean(hp, d, din99)
dE_DIN99b(hp, d) == euclidean(hp, d, din99b)
dE_DIN99c(hp, d) == euclidean(hp, d, din99c)
dE_DIN99d(hp, d) == euclidean(hp, d, din99d)

----------------------------------------------------------------------------
(* dE_00: the terms of the Riemannised CIEDE2000 metric, per point.        *)

\* h_deg = np.rad2deg(h): a new array holding the hue in degrees.
rad2deg_values(hp, h) ==
  LET hv == Load(hp, h) IN Array([i \in 1..Len(hv) |-> np_rad2deg(hv[i])])

rad2deg_inplace(hp, h) ==
  [heap |-> Store(hp, h, rad2deg_values(hp, h)), ref |-> h]

rad2deg(hp, h) ==
  [heap |-> New(hp, rad2deg_values(hp, h)), ref |-> Whole(Alloc(hp))]

\* h_deg[h_deg < 0] = h_deg[h_deg < 0] + 360, on one element.
normalise_unconditional(x) == np_add(x, Rat(360))

normalise(x) == IF np_less(x, Zero) THEN np_add(x, Rat(360)) ELSE x

\* S_L = 1 + (0.015 * (L - 50)**2) / np.sqrt(20 + (L - 50)**2)
S_L(L) ==
  RAdd(One, np_divide(RMul(Dec(15, 1000), RPowNat(RSub(L, Rat(50)), 2)),
                      np_sqrt(RAdd(Rat(20), RPowNat(RSub(L, Rat(50)), 2)))))

\* S_C = 1 + 0.045 * C
S_C(C) == RAdd(One, RMul(Dec(45, 1000), C))

\* T = 1 - 0.17 * np.cos(np.deg2rad(h_deg - 30)) + .24 * np.cos(2*h)
\*       + .32 * np.cos(np.deg2rad(3 * h_deg + 6))
\*       - .2 * np.cos(np.deg2rad(4 * h_deg - 63))
T(h, h_deg) ==
  RSub(RAdd(RAdd(RSub(One,
                      RMul(Dec(17, 100),
                           np_cos(np_deg2rad(RSub(h_deg, Rat(30)))))),
                 RMul(Dec(24, 100), np_cos(np_multiply(Rat(2), h)))),
            RMul(Dec(32, 100),
                 np_cos(np_deg2rad(RAdd(RMul(Rat(3), h_deg), Rat(6)))))),
       RMul(Dec(2, 10),
            np_cos(np_deg2rad(RSub(RMul(Rat(4), h_deg), Rat(63))))))

\* S_h = 1 + 0.015 * C * T
S_h(C, t) == RAdd(One, RMul(RMul(Dec(15, 1000), C), t))

\* R_C = 2 * np.sqrt(C**7 / (C**7 + 25**7)); 25**7 is beyond the integers
\* of the model checker, so numerator and denominator are both divided by
\* it: C**7 / (C**7 + 25**7) = (C/25)**7 / ((C/25)**7 + 1).
R_C(C) ==
  LET x == RPowNat(RMul(C, <<1, 25>>), 7)
  IN  RMul(Rat(2), np_sqrt(np_divide(x, RAdd(x, One))))

\* d_theta = 30 * np.exp(-((h_deg - 275) / 25)**2)
d_theta(h_deg) ==
  RMul(Rat(30),
       np_exp(RNeg(RPowNat(np_divide(RSub(h_deg, Rat(275)), Rat(25)), 2))))

\* R_T = - R_C * np.sin(np.deg2rad(2 * d_theta))
R_T(rc, dth) == RMul(RNeg(rc), np_sin(np_deg2rad(RMul(Rat(2), dth))))

\* g[:, a, b] = values (a, b counted from 0 as in the source).
Fill(g, a, b, values) ==
  Array([i \in 1..Len(g) |-> [g[i] EXCEPT ![a + 1][b + 1] = values[i]]])

\* The fills of g, lines 213-217.
dE_00_fill_no_21(g, g00, g11, g22, g12, g21) ==
  Fill(Fill(Fill(Fill(g, 0, 0, g00), 1, 1, g11), 2, 2, g22), 1, 2, g12)

dE_00_fill(g, g00, g11, g22, g12, g21) ==
  Fill(Fill(Fill(Fill(Fill(g, 0, 0, g00), 1, 1, g11), 2, 2, g22),
            1, 2, g12), 2, 1, g21)

\* The colour space dE_00 tags its result with.
dE_00_space_home(d) == d.sp

dE_00_space(d) == ciede00lch

\* Lines 196-211: the coordinates, the hue in degrees and the terms that
\* do not depend on the weights, as arrays over the batch.
dE_00_terms(hp, d) ==
  LET lch   == get_linear(hp, d, ciede00lch)
      L     == View(lch.id, 1)
      C     == View(lch.id, 2)
      h     == View(lch.id, 3)
      deg   == rad2deg(lch.heap, h)
      h_deg == deg.ref
      raw   == Load(deg.heap, h_deg)
      hp1   == Store(deg.heap, h_deg,
                     Array([i \in 1..Len(raw) |-> normalise(raw[i])]))
      N     == 1..Len(hp1[lch.id])
      Lv    == Load(hp1, L)
      Cv    == Load(hp1, C)
      hv    == Load(hp1, h)
      hdv   == Load(hp1, h_deg)
      t     == Array([i \in N |-> T(hv[i], hdv[i])])
      rc    == Array([i \in N |-> R_C(Cv[i])])
      dth   == Array([i \in N |-> d_theta(hdv[i])])
  IN  [heap |-> hp1, dat |-> lch.dat, lch |-> lch.id, h_deg |-> h_deg,
       C    |-> Cv,
       S_L  |-> Array([i \in N |-> S_L(Lv[i])]),
       S_C  |-> Array([i \in N |-> S_C(Cv[i])]),
       S_h  |-> Array([i \in N |-> S_h(Cv[i], t[i])]),
       R_T  |-> Array([i \in N |-> R_T(rc[i], dth[i])])]

\* g[:, 0, 0] = (k_L * S_L)**(-2)
g00_entry(k_L, sl) == np_power(RMul(k_L, sl), -2)

\* g[:, 1, 1] = (k_C * S_C)**(-2)
g11_entry(k_C, sc) == np_power(RMul(k_C, sc), -2)

\* g[:, 2, 2] = C**2 * (k_h * S_h)**(-2)
g22_entry_no_C2(C, k_h, sh) == np_power(RMul(k_h, sh), -2)

g22_entry(C, k_h, sh) == RMul(RPowNat(C, 2), np_power(RMul(k_h, sh), -2))

\* g[:, 1, 2] = .5 * C * R_T / (k_C * S_C * k_h * S_h), and the same
\* expression for g[:, 2, 1].
g12_entry_no_k_h(C, rt, k_C, sc, k_h, sh) ==
  np_divide(RMul(RMul(Half, C), rt), RMul(RMul(k_C, sc), sh))

g12_entry(C, rt, k_C, sc, k_h, sh) ==
  np_divide(RMul(RMul(Half, C), rt), RMul(RMul(RMul(k_C, sc), k_h), sh))

\* Lines 212-218: the tensors from the terms and the weights.
dE_00_tensor(tm, k_L, k_C, k_h) ==
  LET N   == 1..Len(tm.C)
      g00 == Array([i \in N |-> g00_entry(k_L, tm.S_L[i])])
      g11 == Array([i \in N |-> g11_entry(k_C, tm.S_C[i])])
      g22 == Array([i \in N |-> g22_entry(tm.C[i], k_h, tm.S_h[i])])
      g12 == Array([i \in N |->
                      g12_entry(tm.C[i], tm.R_T[i], k_C, tm.S_C[i],
                                k_h, tm.S_h[i])])
      g21 == Array([i \in N |->
                      g12_entry(tm.C[i], tm.R_T[i], k_C, tm.S_C[i],
                                k_h, tm.S_h[i])])
      g   == dE_00_fill(empty_matrix(tm.heap[tm.lch]), g00, g11, g22, g12, g21)
  IN  [heap |-> Release(New(tm.heap, g), tm.h_deg), dat |-> tm.dat,
       result |-> TensorData(dE_00_space(tm.dat), tm.dat, Alloc(tm.heap)),
       h_deg |-> Load(tm.heap, tm.h_deg)]

dE_00(hp, d, k_L, k_C, k_h) ==
  dE_00_tensor(dE_00_terms(hp, d), k_L, k_C, k_h)

----------------------------------------------------------------------------
(* poincare_disk.                                                          *)

\* sp.R**2 * 4. / (1 - d[i, 1]**2 - d[i, 2]**2)**2
poincare_entry_divide(x, y) == np_divide(x, y)

poincare_entry_R_unsquared(sp, di) ==
  poincare_entry_divide(
    RMul(R(sp), Rat(4)),
    RPowNat(RSub(RSub(One, RPowNat(di[2], 2)), RPowNat(di[3], 2)), 2))

poincare_entry(sp, di) ==
  poincare_entry_divide(
    RMul(RPowNat(R(sp), 2), Rat(4)),
    RPowNat(RSub(RSub(One, RPowNat(di[2], 2)), RPowNat(di[3], 2)), 2))

\* for i in range(np.shape(g)[0]): the three assignments to g[i].
RECURSIVE poincare_loop_first_point(_, _, _, _)
poincare_loop_first_point(g, d, sp, i) ==
  IF i > Len(g) THEN g
  ELSE poincare_loop_first_point(
         [g EXCEPT ![i][1][1] = One,
                   ![i][2][2] = poincare_entry(sp, d[1]),
                   ![i][3][3] = poincare_entry(sp, d[1])],
         d, sp, i + 1)

RECURSIVE poincare_loop(_, _, _, _)
poincare_loop(g, d, sp, i) ==
  IF i > Len(g) THEN g
  ELSE poincare_loop(
         [g EXCEPT ![i][1][1] = One,
                   ![i][2][2] = poincare_entry(sp, d[i]),
                   ![i][3][3] = poincare_entry(sp, d[i])],
         d, sp, i + 1)

poincare_disk(hp, d, sp) ==
  LET c == get_linear(hp, d, sp)
      g == poincare_loop(empty_matrix(c.heap[c.id]), c.heap[c.id], sp, 1)
  IN  [heap |-> New(c.heap, g), dat |-> c.dat,
       result |-> TensorData(sp, c.dat, Alloc(c.heap))]

----------------------------------------------------------------------------
(* The program: a batch is created, and builders are called on it.         *)

\* The weights <<k_L, k_C, k_h>> passed to dE_00: the defaults, each weight
\* doubled alone, and all three doubled.
Weights ==
  {<<Rat(1), Rat(1), Rat(1)>>, <<Rat(2), Rat(1), Rat(1)>>,
   <<Rat(1), Rat(2), Rat(1)>>, <<Rat(1), Rat(1), Rat(2)>>,
   <<Rat(2), Rat(2), Rat(2)>>}

\* The batches: runs of consecutive palette colours, of every length up to
\* MaxN (the empty batch included).
Batches ==
  {[i \in 1..n |-> ((s + i - 2) % Len(Palette)) + 1] :
     s \in Colours, n \in 0..MaxN}

Init ==
  \E sp \in HomeSpaces, cols \in Batches :
    LET o == Data(<<>>, sp, Array([i \in 1..Len(cols) |-> Coord(sp, cols[i])]))
    IN  /\ heap = o.heap
        /\ dat = o.dat
        /\ calls = <<>>
        /\ results = <<>>
        /\ last_h_deg = <<>>
        /\ failure = "none"

\* An exception raised while the entries are computed: an entry that is
\* no number.
Raised(out) ==
  LET g == out.heap[out.result.g]
  IN  \E i \in 1..Len(g), a \in 1..3, b \in 1..3 :
        g[i][a][b] = ZeroDivisionError

\* A call returns its TensorData, or raises and returns nothing.
Call(fn, args, out) ==
  /\ Len(calls) < MaxCalls
  /\ failure = "none"
  /\ calls' = Append(calls, [fn |-> fn, args |-> args])
  /\ dat' = out.dat
  /\ last_h_deg' = IF fn = "dE_00" THEN out.h_deg ELSE last_h_deg
  /\ IF Raised(out)
       THEN /\ failure' = "ZeroDivisionError"
            /\ heap' = Release(out.heap, Whole(out.result.g))
            /\ results' = results
       ELSE /\ failure' = failure
            /\ heap' = out.heap
            /\ results' = Append(results, out.result)

\* The spaces euclidean is called with directly.
EuclideanSpaces == {ciede00lch}

Call_euclidean ==
  \E sp \in EuclideanSpaces :
    Call("euclidean", <<sp>>, euclidean(heap, dat, sp))

Call_dE_ab == Call("dE_ab", <<>>, dE_ab(heap, dat))
Call_dE_uv == Call("dE_uv", <<>>, dE_uv(heap, dat))
Call_dE_E == Call("dE_E", <<>>, dE_E(heap, dat))
Call_dE_DIN99 == Call("dE_DIN99", <<>>, dE_DIN99(heap, dat))
Call_dE_DIN99b == Call("dE_DIN99b", <<>>, dE_DIN99b(heap, dat))
Call_dE_DIN99c == Call("dE_DIN99c", <<>>, dE_DIN99c(heap, dat))
Call_dE_DIN99d == Call("dE_DIN99d", <<>>, dE_DIN99d(heap, dat))

Call_dE_00 ==
  LET tm == dE_00_terms(heap, dat)
  IN  \E w \in Weights :
        Call("dE_00", w, dE_00_tensor(tm, w[1], w[2], w[3]))

Call_poincare_disk ==
  \E sp \in DiskSpaces :
    Call("poincare_disk", <<sp>>, poincare_disk(heap, dat, sp))

Next ==
  \/ Call_euclidean
  \/ Call_dE_ab
  \/ Call_dE_uv
  \/ Call_dE_E
  \/ Call_dE_DIN99
  \/ Call_dE_DIN99b
  \/ Call_dE_DIN99c
  \/ Call_dE_DIN99d
  \/ Call_dE_00
  \/ Call_poincare_disk

Spec == Init /\ [][Next]_vars

----------------------------------------------------------------------------
(* What the claims are stated in.                                          *)

\* The coordinates batch d reports in space sp: dat.get_linear(sp).
ReportedIn(hp, d, sp) ==
  IF sp \in DOMAIN d.data THEN hp[d.data[sp]]
  ELSE from_XYZ(sp, hp[d.linear_XYZ])

Reported(sp) == ReportedIn(heap, dat, sp)

\* The sample points of the batch, and the calls that returned.
Points == 1..Len(heap[dat.linear_XYZ])
Returned == 1..Len(results)

\* The tensor batch of the k-th result, and its entry [i, a, b] (a, b
\* counted from 0).
G(k) == heap[results[k].g]
Entry(k, i, a, b) == G(k)[i][a + 1][b + 1]

EuclideanFamily ==
  {"euclidean", "dE_ab", "dE_uv", "dE_E",
   "dE_DIN99", "dE_DIN99b", "dE_DIN99c", "dE_DIN99d"}

Axes == {0, 1, 2}
OffDiagonal == {<<a, b>> \in Axes \X Axes : a # b}

IsDiagonal(k, i) == \A ab \in OffDiagonal : Entry(k, i, ab[1], ab[2]) = Zero

\* The batch holds a run of two palette colours, in this order.
Holds(c1, c2) ==
  \E i \in Points :
    /\ i + 1 \in Points
    /\ Reported(ciede00lch)[i] = Palette[c1].lch
    /\ Reported(ciede00lch)[i + 1] = Palette[c2].lch
    /\ Reported("poincare_R100")[i] = Palette[c1].disk
    /\ Reported("poincare_R100")[i + 1] = Palette[c2].disk

----------------------------------------------------------------------------
\* C1: every matrix of the batch euclidean returns, called directly or as
\* dE_ab, dE_uv, dE_E, dE_DIN99, dE_DIN99b, dE_DIN99c or dE_DIN99d, is the
\* 3 x 3 identity, one for each point of the batch, whatever the point's
\* coordinates.
C1_EuclideanIsIdentity ==
  \A k \in Returned :
    calls[k].fn \in EuclideanFamily =>
      /\ DOMAIN G(k) = Points
      /\ \A i \in Points :
           G(k)[i] = <<<<One, Zero, Zero>>, <<Zero, One, Zero>>,
                       <<Zero, Zero, One>>>>

\* dE_DIN99c has returned the tensors of a batch of two colours, one on the
\* boundary of the Poincare disk and one outside it.
C1_Witness ==
  /\ Holds(4, 5)
  /\ \E k \in Returned : calls[k].fn = "dE_DIN99c" /\ Len(G(k)) = 2

----------------------------------------------------------------------------
\* C2: the tensor batch of every builder has one 3 x 3 matrix for each of
\* the N points of the batch (N = 0 included), and matrix i is the one of
\* point i: the Poincare-disk entries of matrix i come from the disk
\* coordinates of point i, the dE_00 entries g[0,0] and g[1,1] of matrix i
\* from L and C of point i.
C2_OneMatrixPerPoint ==
  \A k \in Returned :
    /\ DOMAIN G(k) = Points
    /\ \A i \in Points :
         /\ DOMAIN G(k)[i] = 1..3
         /\ \A a \in 1..3 : DOMAIN G(k)[i][a] = 1..3
         /\ calls[k].fn = "poincare_disk" =>
              LET d   == Reported(calls[k].args[1])[i]
                  den == RPowNat(RSub(RSub(One, RPowNat(d[2], 2)),
                                      RPowNat(d[3], 2)), 2)
              IN  IF den = Zero THEN Entry(k, i, 1, 1) = Inf
                  ELSE RMul(Entry(k, i, 1, 1), den)
                         = RMul(Rat(4), RPowNat(R(calls[k].args[1]), 2))
         /\ calls[k].fn = "dE_00" =>
              LET p == Reported(ciede00lch)[i]
              IN  /\ RMul(Entry(k, i, 0, 0),
                          RPowNat(RMul(calls[k].args[1], S_L(p[1])), 2)) = One
                  /\ RMul(Entry(k, i, 1, 1),
                          RPowNat(RMul(calls[k].args[2], S_C(p[2])), 2)) = One

\* poincare_disk and dE_00, each sized from the coordinates of its own
\* space, have each returned two matrices for a batch of two different
\* colours.
C2_Witness ==
  /\ Holds(3, 4)
  /\ Len(results) = 2
  /\ calls[1].fn = "poincare_disk"
  /\ calls[2].fn = "dE_00"
  /\ Len(G(1)) = 2
  /\ Len(G(2)) = 2
  /\ G(2)[1] # G(2)[2]

----------------------------------------------------------------------------
\* C3: for dE_00 with weights k_L, k_C, k_h, every point with C = 0 has
\* g[0,0] = (k_L * S_L)**(-2) with S_L of its L, g[1,1] = k_C**(-2),
\* g[2,2] = 0 and every off-diagonal entry 0; two such points with the same
\* L have the same tensor whatever their hues.
C3_ZeroChroma ==
  \A k \in Returned :
    calls[k].fn = "dE_00" =>
      \A i \in Points :
        LET p == Reported(ciede00lch)[i]
        IN  p[2] = Zero =>
              /\ Entry(k, i, 0, 0)
                   = np_divide(One, RPowNat(RMul(calls[k].args[1], S_L(p[1])), 2))
              /\ Entry(k, i, 1, 1)
                   = np_divide(One, RMul(calls[k].args[2], calls[k].args[2]))
              /\ Entry(k, i, 2, 2) = Zero
              /\ IsDiagonal(k, i)
              /\ \A j \in Points :
                   LET q == Reported(ciede00lch)[j]
                   IN  q[2] = Zero /\ q[1] = p[1] => G(k)[j] = G(k)[i]

\* dE_00 with k_L = k_C = 2 has returned the tensors of two colours of
\* chroma 0 whose hues differ.
C3_Witness ==
  /\ Holds(1, 2)
  /\ Reported(ciede00lch)[1][3] # Reported(ciede00lch)[2][3]
  /\ \E k \in Returned :
       /\ calls[k].fn = "dE_00"
       /\ calls[k].args[1] = Rat(2)
       /\ calls[k].args[2] = Rat(2)

----------------------------------------------------------------------------
\* x with its weight scaled by s, the weight entering x to the power -n.
Scaled(x, s, n) == RMul(x, np_divide(One, RPowNat(s, n)))

\* The entries of matrix i of result k2 are those of result k1 with the
\* listed entries scaled, and the others unchanged.
OnlyScaled(k1, k2, i, s, squared, linear) ==
  \A a \in Axes, b \in Axes :
    Entry(k2, i, a, b) =
      IF <<a, b>> \in squared THEN Scaled(Entry(k1, i, a, b), s, 2)
      ELSE IF <<a, b>> \in linear THEN Scaled(Entry(k1, i, a, b), s, 1)
      ELSE Entry(k1, i, a, b)

\* C4: for two dE_00 calls on the batch that differ in one weight, scaled
\* by s: in k_L, g[0,0] is multiplied by s**(-2) and nothing else changes;
\* in k_C, g[1,1] by s**(-2) and g[1,2], g[2,1] by s**(-1), and nothing else
\* changes; in k_h, g[2,2] by s**(-2) and g[1,2], g[2,1] by s**(-1), and
\* nothing else changes.
C4_WeightScaling ==
  \A k1 \in Returned, k2 \in Returned :
    /\ calls[k1].fn = "dE_00"
    /\ calls[k2].fn = "dE_00"
    /\ calls[k1].args # calls[k2].args
    => LET w1 == calls[k1].args
           w2 == calls[k2].args
       IN  /\ w1[2] = w2[2] /\ w1[3] = w2[3] =>
                \A i \in Points :
                  OnlyScaled(k1, k2, i, np_divide(w2[1], w1[1]),
                             {<<0, 0>>}, {})
           /\ w1[1] = w2[1] /\ w1[3] = w2[3] =>
                \A i \in Points :
                  OnlyScaled(k1, k2, i, np_divide(w2[2], w1[2]),
                             {<<1, 1>>}, {<<1, 2>>, <<2, 1>>})
           /\ w1[1] = w2[1] /\ w1[2] = w2[2] =>
                \A i \in Points :
                  OnlyScaled(k1, k2, i, np_divide(w2[3], w1[3]),
                             {<<2, 2>>}, {<<1, 2>>, <<2, 1>>})

\* Two dE_00 calls that differ in k_h alone have returned, for a point
\* whose g[1,2] is not 0.
C4_Witness ==
  \E k1 \in Returned, k2 \in Returned, i \in Points :
    /\ calls[k1].fn = "dE_00"
    /\ calls[k2].fn = "dE_00"
    /\ calls[k1].args = <<Rat(1), Rat(1), Rat(1)>>
    /\ calls[k2].args = <<Rat(1), Rat(1), Rat(2)>>
    /\ Entry(k1, i, 1, 2) # Zero
    /\ Entry(k2, i, 1, 2) # Entry(k1, i, 1, 2)

----------------------------------------------------------------------------
\* C5: for poincare_disk in a space of radius R, every point has
\* g[0,0] = 1, off-diagonal entries 0 and g[1,1] = g[2,2], which times
\* (1 - d1**2 - d2**2)**2 is 4 * R**2; a point with d1 = d2 = 0 has
\* diag(1, 4 * R**2, 4 * R**2); points that differ in d0 alone have the
\* same tensor.
C5_PoincareDisk ==
  \A k \in Returned :
    calls[k].fn = "poincare_disk" =>
      LET sp    == calls[k].args[1]
          fourR == RMul(Rat(4), RMul(R(sp), R(sp)))
      IN  \A i \in Points :
            LET d   == Reported(sp)[i]
                den == RPowNat(RSub(RSub(One, RMul(d[2], d[2])),
                                    RMul(d[3], d[3])), 2)
            IN  /\ Entry(k, i, 0, 0) = One
                /\ IsDiagonal(k, i)
                /\ Entry(k, i, 1, 1) = Entry(k, i, 2, 2)
                /\ den # Zero => RMul(Entry(k, i, 1, 1), den) = fourR
                /\ d[2] = Zero /\ d[3] = Zero =>
                     G(k)[i] = <<<<One, Zero, Zero>>, <<Zero, fourR, Zero>>,
                                 <<Zero, Zero, fourR>>>>
                /\ \A j \in Points :
                     LET e == Reported(sp)[j]
                     IN  e[2] = d[2] /\ e[3] = d[3] => G(k)[j] = G(k)[i]

\* poincare_disk with R = 100 has returned the tensors of two colours at
\* d1 = d2 = 0 whose d0 differ.
C5_Witness ==
  /\ Holds(1, 2)
  /\ Reported("poincare_R100")[1][1] # Reported("poincare_R100")[2][1]
  /\ \E k \in Returned :
       /\ calls[k].fn = "poincare_disk"
       /\ calls[k].args[1] = "poincare_R100"
       /\ Entry(k, 2, 1, 1) = Rat(40000)

----------------------------------------------------------------------------
\* The space each builder computes its tensors in.
NativeSpace(call) ==
  CASE call.fn = "euclidean" -> call.args[1]
    [] call.fn = "poincare_disk" -> call.args[1]
    [] call.fn = "dE_00" -> ciede00lch
    [] call.fn = "dE_ab" -> cielab
    [] call.fn = "dE_uv" -> cieluv
    [] call.fn = "dE_E" -> lgj_e
    [] call.fn = "dE_DIN99" -> din99
    [] call.fn = "dE_DIN99b" -> din99b
    [] call.fn = "dE_DIN99c" -> din99c
    [] call.fn = "dE_DIN99d" -> din99d

\* C6: every TensorData returned names the batch it was computed for and
\* the space it was computed in: the sp passed to euclidean and
\* poincare_disk, the fixed space of each named Euclidean builder, and
\* ciede00lch for dE_00, whatever space the batch was created in.
C6_TaggedWithNativeSpace ==
  \A k \in Returned :
    /\ results[k].dat = dat.self
    /\ results[k].sp = NativeSpace(calls[k])

\* dE_00 and dE_uv have returned for a batch created in cielab.
C6_Witness ==
  /\ dat.sp = cielab
  /\ Points # {}
  /\ \E k1 \in Returned, k2 \in Returned :
       /\ calls[k1].fn = "dE_00"
       /\ results[k1].sp = ciede00lch
       /\ calls[k2].fn = "dE_uv"
       /\ results[k2].sp = cieluv

----------------------------------------------------------------------------
\* 1 - d1**2 - d2**2 of disk coordinates d.
DiskMargin(d) == RSub(RSub(One, RMul(d[2], d[2])), RMul(d[3], d[3]))

AllFinite(k, i) == \A a \in Axes, b \in Axes : IsFinite(Entry(k, i, a, b))

\* The determinant of a matrix whose first row and column are 0 off the
\* diagonal.
IsSingular(k, i) ==
  \/ Entry(k, i, 0, 0) = Zero
  \/ RMul(Entry(k, i, 1, 1), Entry(k, i, 2, 2))
       = RMul(Entry(k, i, 1, 2), Entry(k, i, 2, 1))

\* C7 as claimed: no call raises; poincare_disk gives every point on or
\* outside the unit circle (d1**2 + d2**2 >= 1) infinite or singular
\* entries g[1,1], g[2,2]; dE_00 gives every point with C = 0 a singular
\* tensor.
C7_AsClaimed ==
  /\ failure = "none"
  /\ \A k \in Returned, i \in Points :
       /\ calls[k].fn = "poincare_disk" =>
            (RLe(DiskMargin(Reported(calls[k].args[1])[i]), Zero) =>
               \/ IsInf(Entry(k, i, 1, 1)) /\ IsInf(Entry(k, i, 2, 2))
               \/ Entry(k, i, 1, 1) = Zero /\ Entry(k, i, 2, 2) = Zero)
       /\ calls[k].fn = "dE_00" =>
            (Reported(ciede00lch)[i][2] = Zero => IsSingular(k, i))

\* C7, amended: no call raises, every call returns; poincare_disk gives a
\* point on the unit circle (d1**2 + d2**2 = 1) g[1,1] = g[2,2] = inf, and
\* every other point, inside or outside the circle, finite positive
\* entries; dE_00 gives a point with C = 0 a singular tensor with finite
\* entries, and a point with C > 0 finite entries with g[2,2] > 0.
C7_DegenerateNeverRaises ==
  /\ failure = "none"
  /\ Len(results) = Len(calls)
  /\ \A k \in Returned, i \in Points :
       /\ calls[k].fn = "poincare_disk" =>
            IF DiskMargin(Reported(calls[k].args[1])[i]) = Zero
              THEN Entry(k, i, 1, 1) = Inf /\ Entry(k, i, 2, 2) = Inf
              ELSE /\ AllFinite(k, i)
                   /\ RLt(Zero, Entry(k, i, 1, 1))
                   /\ RLt(Zero, Entry(k, i, 2, 2))
       /\ calls[k].fn = "dE_00" =>
            /\ AllFinite(k, i)
            /\ IF Reported(ciede00lch)[i][2] = Zero
                 THEN IsSingular(k, i)
                 ELSE RLt(Zero, Entry(k, i, 2, 2))

\* poincare_disk has returned for a batch of a colour on the boundary of
\* the disk and a colour outside it: infinite entries for the first,
\* 4 * R**2 / 9 for the second.
C7_Witness ==
  /\ Holds(4, 5)
  /\ DiskMargin(Reported("poincare_R1")[1]) = Zero
  /\ RLt(DiskMargin(Reported("poincare_R1")[2]), Zero)
  /\ \E k \in Returned :
       /\ calls[k] = [fn |-> "poincare_disk", args |-> <<"poincare_R1">>]
       /\ Entry(k, 1, 1, 1) = Inf
       /\ Entry(k, 2, 1, 1) = <<4, 9>>

----------------------------------------------------------------------------
\* C8: a builder call changes neither the coordinates the batch reports in
\* any space, nor the space it was created in, nor any TensorData returned
\* before or its tensor batch; and two calls with the same arguments have
\* returned equal tensor batches in the same space.
C8_NoSideEffects ==
  [][ /\ \A sp \in Spaces :
           ReportedIn(heap', dat', sp) = ReportedIn(heap, dat, sp)
      /\ dat'.sp = dat.sp
      /\ dat'.self = dat.self
      /\ \A k \in Returned :
           /\ results'[k] = results[k]
           /\ heap'[results'[k].g] = heap[results[k].g]
      /\ \A k1 \in 1..Len(results'), k2 \in 1..Len(results') :
           calls'[k1] = calls'[k2] =>
             /\ heap'[results'[k1].g] = heap'[results'[k2].g]
             /\ results'[k1].sp = results'[k2].sp
    ]_vars

\* dE_00 has been called twice with the same weights on a batch with a
\* negative hue, and has returned two arrays with the same contents.
C8_Witness ==
  /\ Holds(3, 4)
  /\ RLt(Reported(ciede00lch)[1][3], Zero)
  /\ Len(results) = 2
  /\ calls[1] = [fn |-> "dE_00", args |-> <<Rat(1), Rat(2), Rat(1)>>]
  /\ calls[2] = calls[1]
  /\ results[1].g # results[2].g
  /\ G(1) = G(2)

----------------------------------------------------------------------------
\* C9: every matrix is symmetric; the Euclidean and Poincare-disk matrices
\* are diagonal; in dE_00 the entries g[0,1], g[1,0], g[0,2], g[2,0] are 0.
C9_Symmetric ==
  \A k \in Returned, i \in Points :
    /\ \A a \in Axes, b \in Axes : Entry(k, i, a, b) = Entry(k, i, b, a)
    /\ calls[k].fn # "dE_00" => IsDiagonal(k, i)
    /\ calls[k].fn = "dE_00" =>
         /\ Entry(k, i, 0, 1) = Zero
         /\ Entry(k, i, 1, 0) = Zero
         /\ Entry(k, i, 0, 2) = Zero
         /\ Entry(k, i, 2, 0) = Zero

\* dE_00 has returned a matrix whose g[1,2] and g[2,1] are not 0.
C9_Witness ==
  \E k \in Returned, i \in Points :
    /\ calls[k] = [fn |-> "dE_00", args |-> <<Rat(2), Rat(2), Rat(2)>>]
    /\ Entry(k, i, 1, 2) # Zero
    /\ Entry(k, i, 2, 1) # Zero

----------------------------------------------------------------------------
\* C10 as claimed: the hue in degrees dE_00 uses is, point by point, the
\* hue of the point in degrees plus 360 where that is negative and
\* unchanged where it is not, and lies in [0, 360).
C10_AsClaimed ==
  (\E k \in 1..Len(calls) : calls[k].fn = "dE_00") =>
    /\ DOMAIN last_h_deg = Points
    /\ \A i \in Points :
         LET degrees == np_rad2deg(Reported(ciede00lch)[i][3])
         IN  /\ last_h_deg[i] =
                  IF np_less(degrees, Zero) THEN np_add(degrees, Rat(360))
                  ELSE degrees
             /\ RLe(Zero, last_h_deg[i])
             /\ RLt(last_h_deg[i], Rat(360))

\* C10, amended: the hue in degrees dE_00 uses is, point by point, the
\* double nearest to the hue of the point in degrees plus 360 where that is
\* negative and unchanged where it is not; it lies in [0, 360], and is 360
\* exactly where the degrees are negative and too small to change the sum.
C10_HueNormalised ==
  (\E k \in 1..Len(calls) : calls[k].fn = "dE_00") =>
    /\ DOMAIN last_h_deg = Points
    /\ \A i \in Points :
         LET degrees == np_rad2deg(Reported(ciede00lch)[i][3])
         IN  /\ last_h_deg[i] =
                  IF np_less(degrees, Zero) THEN np_add(degrees, Rat(360))
                  ELSE degrees
             /\ RLe(Zero, last_h_deg[i])
             /\ RLe(last_h_deg[i], Rat(360))
             /\ last_h_deg[i] = Rat(360) <=> degrees = NegTiny

\* dE_00 has been called on a batch of a colour of hue pi/2 and a colour of
\* hue -1e-17: the degrees used are 90 and 360.
C10_Witness ==
  /\ Holds(4, 5)
  /\ \E k \in Returned : calls[k].fn = "dE_00"
  /\ last_h_deg = <<Rat(90), Rat(360)>>

====
